---------------------------- MODULE Spec2Model ----------------------------
(***************************************************************************)
(* FedWatch: the Indeed job-trend scraper (src/indeed_scraper.py) and the  *)
(* macro health endpoint of the API (src/api.py).                          *)
(*                                                                         *)
(* Three programs are modelled over one set of variables:                  *)
(*   Spec       main() of the scraper: get_all_trends, the score, the save *)
(*   ScoreSpec  calculate_health_score applied to bounded snapshots        *)
(*   HealthSpec get_health applied to bounded macro statistics             *)
(*                                                                         *)
(* Numbers.  Time is counted in whole seconds.  Job-market scores are      *)
(* kept in tenths of a point (50.0 is 500).  Macro rates are kept in       *)
(* thousandths of a percentage point (4.3 is 4300) and the unrounded macro *)
(* score in thousandths of a point (100 is 100000).  Arithmetic is exact;  *)
(* where the binary floating point of the program decides a rounding tie   *)
(* by its representation error, both neighbours are possible outcomes.     *)
(***************************************************************************)
EXTENDS Integers, Sequences, FiniteSets, TLC

VARIABLES
    pc,         \* position of main(): "start", "loop", "sleep", "save", "done", "crashed"
    idx,        \* position of the for loop of get_all_trends in JOB_CATEGORIES
    results,    \* the dict built by get_all_trends, in insertion order
    clock,      \* current time, seconds
    runStart,   \* time at which get_all_trends was entered
    log,        \* one entry per get_trend call: category, issue and return time, outcome
    last,       \* the network outcome and the return value of the latest get_trend call
    output,     \* the record main() dumps to indeed_trends.json
    trends,     \* argument of calculate_health_score (ScoreSpec)
    health,     \* its outcome (ScoreSpec)
    data,       \* what load_data() returned (HealthSpec)
    response    \* what get_health returned (HealthSpec)

vars == <<pc, idx, results, clock, runStart, log, last, output,
          trends, health, data, response>>

aggVars    == <<pc, idx, results, clock, runStart, log, last, output>>
scoreVars  == <<trends, health>>
healthVars == <<data, response>>

-----------------------------------------------------------------------------
(* Bounds *)

\* largest posting count of a snapshot handed to the scorer
MaxCount == 4
\* macro rates are 0.1 * t + 0.001 * o percent, t in 0..Max...Tenths, o in 0..MaxOffset
MaxUnemploymentTenths == 80
MaxInflationTenths == 130
MaxOffset == 6

-----------------------------------------------------------------------------
(* Python values *)

None == [tag |-> "None"]

Min(a, b) == IF a < b THEN a ELSE b
Max(a, b) == IF a > b THEN a ELSE b
Abs(a) == IF a < 0 THEN -a ELSE a

SetMax(S) == CHOOSE m \in S : \A x \in S : x <= m

\* dict.get(key, default) on a dict modelled as a record
Get(d, key, default) == IF key \in DOMAIN d THEN d[key] ELSE default

-----------------------------------------------------------------------------
(* Configuration of the scraper *)

\* iteration order of the JOB_CATEGORIES dict
Categories == <<"tech", "retail", "manufacturing", "healthcare", "finance", "general">>

CategorySet == {Categories[i] : i \in 1..Len(Categories)}

JOB_CATEGORIES ==
    [c \in CategorySet |->
        CASE c = "tech"          -> <<"software engineer", "data scientist", "developer", "IT">>
          [] c = "retail"        -> <<"retail", "store associate", "cashier", "sales associate">>
          [] c = "manufacturing" -> <<"manufacturing", "factory", "warehouse", "production">>
          [] c = "healthcare"    -> <<"nurse", "medical", "healthcare", "hospital">>
          [] c = "finance"       -> <<"finance", "accountant", "analyst", "banking">>
          [] c = "general"       -> <<"full time", "part time", "employment">>]

\* time.sleep(1)
SleepSeconds == 1

\* session.get(..., timeout=10)
timeout == 10

\* the time a request takes: a request that times out takes the whole
\* timeout, every other outcome is taken to be immediate
Latency(net) == IF net = "Timeout" THEN timeout ELSE 0

-----------------------------------------------------------------------------
(* Text.  A text is a sequence of whitespace-separated tokens and a token   *)
(* is a sequence of one-character strings.                                  *)

Digits == {"0", "1", "2", "3", "4", "5", "6", "7", "8", "9"}

DigitValue(ch) ==
    CASE ch = "0" -> 0 [] ch = "1" -> 1 [] ch = "2" -> 2 [] ch = "3" -> 3
      [] ch = "4" -> 4 [] ch = "5" -> 5 [] ch = "6" -> 6 [] ch = "7" -> 7
      [] ch = "8" -> 8 [] ch = "9" -> 9

\* str.replace(',', '')
RemoveCommas(s) == SelectSeq(s, LAMBDA ch : ch # ",")

RECURSIVE DecimalValue(_)
DecimalValue(s) ==
    IF s = <<>> THEN 0
    ELSE 10 * DecimalValue(SubSeq(s, 1, Len(s) - 1)) + DigitValue(s[Len(s)])

\* int(s) for a string of digits and commas: an exception name, or the value
int(s) ==
    IF s = <<>> \/ \E k \in 1..Len(s) : s[k] \notin Digits
    THEN [exc |-> "ValueError", value |-> 0]
    ELSE [exc |-> "none", value |-> DecimalValue(s)]

\* the character class [\d,]+ covering a whole token
IsCountToken(tok) ==
    /\ Len(tok) >= 1
    /\ \A k \in 1..Len(tok) : tok[k] \in Digits \cup {","}

EndsWithOf(tok) ==
    /\ Len(tok) >= 2
    /\ tok[Len(tok) - 1] = "o"
    /\ tok[Len(tok)] = "f"

StartsWithJobs(tok) ==
    /\ Len(tok) >= 4
    /\ SubSeq(tok, 1, 4) = <<"j", "o", "b", "s">>

\* the pattern of\s+([\d,]+)\s+jobs matching at token i
MatchAt(text, i) ==
    /\ i + 2 <= Len(text)
    /\ EndsWithOf(text[i])
    /\ IsCountToken(text[i + 1])
    /\ StartsWithJobs(text[i + 2])

\* re.search: <<>> when nothing matches, else <<group 1 of the leftmost match>>
re_search(text) ==
    IF \E i \in 1..Len(text) : MatchAt(text, i)
    THEN LET i == CHOOSE j \in 1..Len(text) :
                      /\ MatchAt(text, j)
                      /\ \A k \in 1..(j - 1) : ~MatchAt(text, k)
         IN <<text[i + 1]>>
    ELSE <<>>

-----------------------------------------------------------------------------
(* Pages.  A page is what BeautifulSoup finds in a response body: the text  *)
(* of div#searchCount and of span.mat-text, each <<>> when the element is   *)
(* missing and <<text>> when it is there.                                   *)

wPage == <<"P", "a", "g", "e">>
wOf   == <<"o", "f">>
wJobs == <<"j", "o", "b", "s">>
wNo   == <<"N", "o">>

Page(searchCount, matText) == [searchCount |-> searchCount, matText |-> matText]

\* "Page 1 of 1,234 jobs"
PageThousands == Page(<< <<wPage, <<"1">>, wOf, <<"1", ",", "2", "3", "4">>, wJobs>> >>, <<>>)
\* "Page 1 of 0 jobs", with a mat-text span as well
PageZero == Page(<< <<wPage, <<"1">>, wOf, <<"0">>, wJobs>> >>, << <<<<"7">>>> >>)
\* "Page 1 of , jobs": the pattern matches and the count text is no integer
PageCommaOnly == Page(<< <<wPage, <<"1">>, wOf, <<",">>, wJobs>> >>, << <<<<"5", "7">>>> >>)
\* "No jobs" in div#searchCount, "1,234" in span.mat-text
PageFallback == Page(<< <<wNo, wJobs>> >>, << <<<<"1", ",", "2", "3", "4">>>> >>)
\* no div#searchCount, "57" in span.mat-text
PageFallbackOnly == Page(<<>>, << <<<<"5", "7">>>> >>)
\* neither element
PageBlank == Page(<<>>, <<>>)

Pages == {PageThousands, PageZero, PageCommaOnly, PageFallback, PageFallbackOnly, PageBlank}

\* what session.get and raise_for_status can do
NetOutcomes == {"ok", "ConnectionError", "Timeout", "HTTPError"}

\* the classes the clause "except Exception" catches
Exception == {"ConnectionError", "Timeout", "HTTPError", "ValueError"}

\* a mutant of Caught: only the errors of the requests library are caught
CaughtRequestsOnly(e) == e \in {"ConnectionError", "Timeout", "HTTPError"}

Caught(e) == e \in Exception

\* the try block of get_job_count: an exception name, or the value returned
\* from inside it (None when control falls out of the block)
TryBlock(keywords, location, net, page, now) ==
    IF net # "ok"
    THEN [exc |-> net, value |-> None]
    ELSE LET count_elem == page.searchCount
             match == IF count_elem # <<>> THEN re_search(count_elem[1]) ELSE <<>>
         IN IF match # <<>>
            THEN LET parsed == int(RemoveCommas(match[1]))
                 IN IF parsed.exc # "none"
                    THEN [exc |-> parsed.exc, value |-> None]
                    ELSE [exc |-> "none",
                          value |-> [keywords  |-> keywords,
                                     count     |-> parsed.value,
                                     location  |-> location,
                                     timestamp |-> now]]
            ELSE \* span.mat-text is looked up and its text is read into
                 \* count_text, which nothing uses
                 [exc |-> "none", value |-> None]

get_job_count(keywords, location, net, page, now) ==
    LET r == TryBlock(keywords, location, net, page, now)
    IN IF r.exc = "none" THEN r
       ELSE IF Caught(r.exc) THEN [exc |-> "none", value |-> None]
       ELSE r

get_trend(category, location, net, page, now) ==
    LET keywords == Get(JOB_CATEGORIES, category, <<category>>)
    IN get_job_count(keywords, location, net, page, now)


-----------------------------------------------------------------------------
(* calculate_health_score.  A snapshot is a function from the categories    *)
(* it holds to their dicts.  The running score is an exact fraction: all    *)
(* terms share the denominator 100 * max_count, so only the numerator is    *)
(* accumulated.                                                             *)

\* the weights dict in iteration order, weights in hundredths
weights ==
    << [category |-> "tech",          weight |-> 25],
       [category |-> "manufacturing", weight |-> 20],
       [category |-> "retail",        weight |-> 20],
       [category |-> "healthcare",    weight |-> 20],
       [category |-> "finance",       weight |-> 10],
       [category |-> "general",       weight |-> 5] >>

\* the neutral score 50.0, in tenths
NeutralScore == 500

\* a mutant of IsZeroMax: the all-zero case is not recognised
NeverZeroMax(max_count) == FALSE

\* max_count == 0
IsZeroMax(max_count) == max_count = 0

\* a mutant of round1: the digits after the first decimal are cut off
truncate1(num, den) == (10 * num) \div den

\* round(num / den, 1) in tenths for num >= 0 and den > 0, ties to even
round1(num, den) ==
    LET q == (10 * num) \div den
        r == (10 * num) % den
    IN IF 2 * r > den THEN q + 1
       ELSE IF 2 * r < den THEN q
       ELSE IF q % 2 = 0 THEN q ELSE q + 1

\* count / max_count * 100 as a fraction, or the exception of the division
TrueDivide(count, max_count) ==
    IF max_count = 0
    THEN [exc |-> "ZeroDivisionError", num |-> 0, den |-> 1]
    ELSE [exc |-> "none", num |-> count * 100, den |-> max_count]

\* the loop over weights.items() from item i on; acc is the numerator of
\* score over the denominator 100 * max_count
RECURSIVE ScoreLoop(_, _, _, _)
ScoreLoop(snapshot, max_count, i, acc) ==
    IF i > Len(weights) THEN [exc |-> "none", num |-> acc]
    ELSE LET category == weights[i].category
             weight == weights[i].weight
         IN IF category \in DOMAIN snapshot
            THEN LET count == Get(snapshot[category], "count", 0)
                     normalized == TrueDivide(count, max_count)
                 IN IF normalized.exc # "none"
                    THEN [exc |-> normalized.exc, num |-> acc]
                    ELSE ScoreLoop(snapshot, max_count, i + 1,
                                   acc + normalized.num * weight)
            ELSE ScoreLoop(snapshot, max_count, i + 1, acc)

\* the outcome: an exception name or the score in tenths, and the divisor
\* the score was computed with (0: nothing was divided)
calculate_health_score(snapshot) ==
    IF DOMAIN snapshot = {}
    THEN [exc |-> "none", value |-> NeutralScore, divisor |-> 0]
    ELSE LET max_count == SetMax({Get(snapshot[c], "count", 0) : c \in DOMAIN snapshot})
         IN IF IsZeroMax(max_count)
            THEN [exc |-> "none", value |-> NeutralScore, divisor |-> 0]
            ELSE LET score == ScoreLoop(snapshot, max_count, 1, 0)
                 IN IF score.exc # "none"
                    THEN [exc |-> score.exc, value |-> 0, divisor |-> max_count]
                    ELSE [exc |-> "none",
                          value |-> round1(score.num, 100 * max_count),
                          divisor |-> max_count]

-----------------------------------------------------------------------------
(* get_all_trends and main *)

Keys(d) == [i \in 1..Len(d) |-> d[i].key]

KeySet(d) == {d[i].key : i \in 1..Len(d)}

\* the dict as a function from its keys to its values
Values(d) == [c \in KeySet(d) |-> d[CHOOSE i \in 1..Len(d) : d[i].key = c].value]

\* results[category] = result
SetItem(d, key, value) ==
    IF key \in KeySet(d)
    THEN [i \in 1..Len(d) |-> IF d[i].key = key THEN [key |-> key, value |-> value] ELSE d[i]]
    ELSE Append(d, [key |-> key, value |-> value])

\* a mutant of Truthy: a result whose count is 0 is taken for no result
TruthyCount(result) == result # None /\ result.count # 0

\* "if result:" for a result that is None or a dict of four keys
Truthy(result) == result # None

\* a mutant of SleepDuration: the delay is skipped after a fetch without result
SleepOnSuccess(result) == IF result # None THEN SleepSeconds ELSE 0

\* time.sleep(1) at the end of the loop body, whatever the result was
SleepDuration(result) == SleepSeconds

\* a mutant of NextIndex: a category without result is fetched again
RetryIndex(i, result) == IF result = None THEN i ELSE i + 1

\* the for loop moves on to the next category, whatever the result was
NextIndex(i, result) == i + 1

\* a mutant of OutputTimestamp: the time at which the run started
StartTimestamp(start, now) == start

\* datetime.utcnow() where main() builds the output record
OutputTimestamp(start, now) == now

NoCall == [net |-> "none", page |-> PageBlank, exc |-> "none", value |-> None]

NoOutput == [tag |-> "None"]

NoHealth == [exc |-> "none", value |-> 0, divisor |-> 0, called |-> FALSE]

NoData == [unemployment |-> 0, inflation |-> 0, fed_funds |-> 0]

NoResponse == [tag |-> "None"]

EmptySnapshot == [c \in {} |-> None]

\* main() up to the first iteration: results = {}
Start ==
    /\ pc = "start"
    /\ pc' = "loop"
    /\ idx' = 1
    /\ results' = <<>>
    /\ runStart' = clock
    /\ UNCHANGED <<clock, log, last, output>>
    /\ UNCHANGED <<scoreVars, healthVars>>

\* one iteration of the loop up to the sleep: the request ends as net says;
\* an answer carries the page
Fetch ==
    /\ pc = "loop"
    /\ idx <= Len(Categories)
    /\ \E net \in NetOutcomes :
       \E page \in (IF net = "ok" THEN Pages ELSE {PageBlank}) :
          LET category == Categories[idx]
              now == clock + Latency(net)
              r == get_trend(category, "us", net, page, now)
          IN /\ clock' = now
             /\ last' = [net |-> net, page |-> page, exc |-> r.exc, value |-> r.value]
             /\ log' = Append(log, [category |-> category,
                                    issued   |-> clock,
                                    returned |-> now,
                                    outcome  |-> IF r.exc # "none" THEN "raised"
                                                 ELSE IF r.value = None THEN "Unknown"
                                                 ELSE "Count"])
             /\ IF r.exc # "none"
                THEN /\ pc' = "crashed"
                     /\ results' = results
                ELSE /\ pc' = "sleep"
                     /\ results' = IF Truthy(r.value)
                                   THEN SetItem(results, category, r.value)
                                   ELSE results
    /\ UNCHANGED <<idx, runStart, output>>
    /\ UNCHANGED <<scoreVars, healthVars>>

\* the sleep that ends an iteration, and the step of the for loop
Sleep ==
    /\ pc = "sleep"
    /\ clock' = clock + SleepDuration(last.value)
    /\ idx' = NextIndex(idx, last.value)
    /\ pc' = IF idx' > Len(Categories) THEN "save" ELSE "loop"
    /\ UNCHANGED <<results, runStart, log, last, output>>
    /\ UNCHANGED <<scoreVars, healthVars>>

\* main() after get_all_trends returned: the score and the output record
Save ==
    /\ pc = "save"
    /\ LET h == calculate_health_score(Values(results))
       IN IF h.exc # "none"
          THEN /\ pc' = "crashed"
               /\ output' = output
          ELSE /\ pc' = "done"
               /\ output' = [timestamp    |-> OutputTimestamp(runStart, clock),
                             trends       |-> results,
                             health_score |-> h.value]
    /\ UNCHANGED <<idx, results, clock, runStart, log, last>>
    /\ UNCHANGED <<scoreVars, healthVars>>

Init ==
    /\ pc = "start"
    /\ idx = 0
    /\ results = <<>>
    /\ clock = 0
    /\ runStart = 0
    /\ log = <<>>
    /\ last = NoCall
    /\ output = NoOutput
    /\ trends = EmptySnapshot
    /\ health = NoHealth
    /\ data = NoData
    /\ response = NoResponse

Next == Start \/ Fetch \/ Sleep \/ Save

Spec == Init /\ [][Next]_vars

\* the steps of main() follow one another without external scheduling
LiveSpec == Init /\ [][Next]_vars /\ WF_vars(Next)


-----------------------------------------------------------------------------
(* ScoreSpec: calculate_health_score on every snapshot over the categories  *)
(* with counts up to MaxCount                                               *)

\* a dict that carries no 'count' key
NoCountEntry == [location |-> "us"]

Entries == {[count |-> n] : n \in 0..MaxCount} \cup {NoCountEntry}

Snapshots == UNION {[S -> Entries] : S \in SUBSET CategorySet}

ScoreInit ==
    /\ pc = "start"
    /\ idx = 0
    /\ results = <<>>
    /\ clock = 0
    /\ runStart = 0
    /\ log = <<>>
    /\ last = NoCall
    /\ output = NoOutput
    /\ trends \in Snapshots
    /\ health = NoHealth
    /\ data = NoData
    /\ response = NoResponse

Score ==
    /\ ~health.called
    /\ LET h == calculate_health_score(trends)
       IN health' = [exc |-> h.exc, value |-> h.value, divisor |-> h.divisor,
                     called |-> TRUE]
    /\ UNCHANGED <<trends, aggVars, healthVars>>

ScoreNext == Score

ScoreSpec == ScoreInit /\ [][ScoreNext]_vars

-----------------------------------------------------------------------------
(* get_health.  Rates in thousandths of a percentage point, the unrounded   *)
(* score in thousandths of a point, the returned score in tenths.           *)

\* the default "fed_funds_rate" of load_data, 4.25
FedFundsRate == 4250

\* the penalty for unemployment above 5 or below 3.5
UnemploymentPenalty(unemployment) ==
    IF unemployment > 5000 THEN (unemployment - 5000) * 10
    ELSE IF unemployment < 3500 THEN (3500 - unemployment) * 5
    ELSE 0

\* abs(inflation - 2.0) * 10
InflationPenalty(inflation) == Abs(inflation - 2000) * 10

\* a mutant of Clamp: the score is left as computed
NoClamp(score) == score

\* max(0, min(100, score))
Clamp(score) == Max(0, Min(100000, score))

Rating(score) ==
    IF score >= 70000 THEN "healthy"
    ELSE IF score >= 50000 THEN "cautious"
    ELSE "concerning"

\* round(score, 1) on the binary float: the nearest tenth, and either
\* neighbour when the decimal value lies halfway
RoundedScores(score) ==
    LET q == score \div 100
        r == score % 100
    IN IF r > 50 THEN {q + 1}
       ELSE IF r < 50 THEN {q}
       ELSE {q, q + 1}

Rates(maxTenths) == {100 * t + o : t \in 0..maxTenths, o \in 0..MaxOffset}

HealthInit ==
    /\ pc = "start"
    /\ idx = 0
    /\ results = <<>>
    /\ clock = 0
    /\ runStart = 0
    /\ log = <<>>
    /\ last = NoCall
    /\ output = NoOutput
    /\ trends = EmptySnapshot
    /\ health = NoHealth
    /\ \E unemployment \in Rates(MaxUnemploymentTenths),
          inflation \in Rates(MaxInflationTenths) :
          data = [unemployment |-> unemployment,
                  inflation    |-> inflation,
                  fed_funds    |-> FedFundsRate]
    /\ response = NoResponse

GetHealth ==
    /\ response = NoResponse
    /\ LET unemployment == data.unemployment
           inflation == data.inflation
           score == Clamp(100000 - UnemploymentPenalty(unemployment)
                                 - InflationPenalty(inflation))
           rating == Rating(score)
       IN \E rounded \in RoundedScores(score) :
             response' = [status  |-> "success",
                          score   |-> rounded,
                          rating  |-> rating,
                          factors |-> [unemployment |-> unemployment,
                                       inflation    |-> inflation,
                                       fed_funds    |-> data.fed_funds]]
    /\ UNCHANGED <<data, aggVars, scoreVars>>

HealthNext == GetHealth

HealthSpec == HealthInit /\ [][HealthNext]_vars


-----------------------------------------------------------------------------
(* Properties of get_all_trends and main (Spec, LiveSpec) *)

Attempted(c) == \E k \in 1..Len(log) : log[k].category = c

ReturnedCount(c) ==
    \E k \in 1..Len(log) : log[k].category = c /\ log[k].outcome = "Count"

ValueOf(d, c) == d[CHOOSE i \in 1..Len(d) : d[i].key = c].value

\* C1: a category is a key of the snapshot exactly if its fetch returned a
\* result with an integer count (0 included); a category whose fetch
\* returned no result is not a key, and no key is stored with None or
\* without a count.
C1_Omission ==
    /\ \A c \in CategorySet :
          Attempted(c) => (c \in KeySet(results) <=> ReturnedCount(c))
    /\ \A c \in KeySet(results) :
          /\ Attempted(c)
          /\ ValueOf(results, c) # None
          /\ "count" \in DOMAIN ValueOf(results, c)
          /\ ValueOf(results, c).count \in Nat

\* a finished run that kept a count of 0 and left out a category without result
C1_Witness ==
    /\ pc = "done"
    /\ \E c \in KeySet(results) : ValueOf(results, c).count = 0
    /\ \E c \in CategorySet : c \notin KeySet(results)
    /\ \E k \in 1..Len(log) : log[k].outcome = "Unknown"

NoPatternMatch(page) ==
    page.searchCount = <<>> \/ re_search(page.searchCount[1]) = <<>>

UnparsableCount(page) ==
    /\ ~NoPatternMatch(page)
    /\ int(RemoveCommas(re_search(page.searchCount[1])[1])).exc # "none"

\* C2: get_trend never raises: a connection error, a timeout, an HTTP error
\* status, a page without pattern match and a count text that is no integer
\* all end in the return value None, and the run goes on to attempt every
\* category.
C2_NeverRaises ==
    /\ pc # "crashed"
    /\ last.exc = "none"
    /\ \A k \in 1..Len(log) : log[k].outcome # "raised"
    /\ last.net \in {"ConnectionError", "Timeout", "HTTPError"} => last.value = None
    /\ (last.net = "ok" /\ NoPatternMatch(last.page)) => last.value = None
    /\ (last.net = "ok" /\ UnparsableCount(last.page)) => last.value = None
    /\ pc \in {"save", "done"} => Len(log) = Len(Categories)
    /\ pc = "loop" => idx = Len(log) + 1

\* a count text that is no integer came back None after an earlier failed fetch
C2_Witness ==
    /\ last.net = "ok"
    /\ UnparsableCount(last.page)
    /\ last.value = None
    /\ Len(log) = Len(Categories)
    /\ \E k \in 1..(Len(log) - 1) : log[k].outcome = "Unknown"

\* C7: between the return of one get_trend call and the issue of the next
\* at least 1 second passes, whatever the earlier call returned.
C7_CourtesyDelay ==
    \A k \in 2..Len(log) : log[k].issued >= log[k - 1].returned + 1

\* a request issued after a fetch without result and one after a fetch with a count
C7_Witness ==
    /\ \E k \in 2..Len(log) : log[k - 1].outcome = "Unknown"
    /\ \E k \in 2..Len(log) : log[k - 1].outcome = "Count"
    /\ last.net = "Timeout"

\* the count the ordered strategies would extract: <<n>> or <<>> for Unknown
CountOfToken(tok) ==
    IF IsCountToken(tok) /\ int(RemoveCommas(tok)).exc = "none"
    THEN <<int(RemoveCommas(tok)).value>>
    ELSE <<>>

FirstStrategy(page) ==
    IF NoPatternMatch(page) THEN <<>>
    ELSE CountOfToken(re_search(page.searchCount[1])[1])

FallbackStrategy(page) ==
    IF page.matText = <<>> \/ Len(page.matText[1]) # 1 THEN <<>>
    ELSE CountOfToken(page.matText[1][1])

OrderedStrategies(page) ==
    IF FirstStrategy(page) # <<>> THEN FirstStrategy(page) ELSE FallbackStrategy(page)

\* C8: the extractor returns the count of the first strategy that yields a
\* valid integer, the "of N jobs" phrasing first and the mat-text element
\* second, and Unknown only when neither does.
C8_FirstValidStrategyWins ==
    last.net = "ok" =>
        IF OrderedStrategies(last.page) = <<>>
        THEN last.value = None
        ELSE /\ last.value # None
             /\ last.value.count = OrderedStrategies(last.page)[1]

\* C9 as stated: the timestamp of the output is the time at which the run
\* started and is not later than the timestamp of any result.
C9_TimestampAtStart ==
    pc = "done" =>
        /\ output.timestamp = runStart
        /\ \A i \in 1..Len(output.trends) :
              output.timestamp <= output.trends[i].value.timestamp

\* C9 amended: the only overall timestamp is taken when main() builds the
\* output record, after the last fetch and its sleep; it is later than the
\* timestamp of every result and than the start of the run.
C9_TimestampAtEnd ==
    /\ pc # "done" => output = NoOutput
    /\ pc = "done" =>
        /\ output.timestamp = clock
        /\ output.timestamp >= runStart + Len(Categories)
        /\ \A k \in 1..Len(log) : output.timestamp > log[k].returned
        /\ \A i \in 1..Len(output.trends) :
              output.timestamp > output.trends[i].value.timestamp

\* an output record over at least two results, written after a timeout
C9_Witness ==
    /\ pc = "done"
    /\ Len(output.trends) >= 2
    /\ \E k \in 1..Len(log) : log[k].returned = log[k].issued + timeout

PositionOf(c) == CHOOSE i \in 1..Len(Categories) : Categories[i] = c

C10_OnceInOrder ==
    /\ Len(log) <= Len(Categories)
    /\ \A k \in 1..Len(log) : log[k].category = Categories[k]
    /\ pc \in {"save", "done"} => Len(log) = Len(Categories)
    /\ KeySet(results) \subseteq CategorySet
    /\ \A i, j \in 1..Len(results) :
          i < j => PositionOf(results[i].key) < PositionOf(results[j].key)

\* C10: the k-th request of a run is for the k-th configured category, so
\* every category is requested once, in order and without retry; the keys
\* of the snapshot are configured categories in that order; and the run
\* reaches its end.
C10_EachOnceAndTerminates == []C10_OnceInOrder /\ <>(pc = "done")

\* a finished run with failed and successful fetches
C10_Witness ==
    /\ pc = "done"
    /\ Len(results) = 3
    /\ log[1].outcome = "Unknown"
    /\ log[2].outcome = "Count"

-----------------------------------------------------------------------------
(* Properties of calculate_health_score (ScoreSpec) *)

CountOf(snapshot, c) == Get(snapshot[c], "count", 0)

AllZero(snapshot) == \A c \in DOMAIN snapshot : CountOf(snapshot, c) = 0

WeightKeys == {weights[i].category : i \in 1..Len(weights)}

WeightOf(c) == weights[CHOOSE i \in 1..Len(weights) : weights[i].category = c].weight

RECURSIVE WeightedSum(_, _)
WeightedSum(S, snapshot) ==
    IF S = {} THEN 0
    ELSE LET c == CHOOSE x \in S : TRUE
         IN CountOf(snapshot, c) * WeightOf(c) + WeightedSum(S \ {c}, snapshot)

\* C3: no division by a zero maximum: an empty snapshot and a snapshot whose
\* counts are all 0 or missing give 50.0 without any division and without an
\* exception, and a division only ever has a positive maximum as divisor.
C3_NoZeroDivision ==
    health.called =>
        /\ health.exc = "none"
        /\ AllZero(trends) => (health.value = 500 /\ health.divisor = 0)
        /\ ~AllZero(trends) =>
              /\ health.divisor > 0
              /\ \A c \in DOMAIN trends : CountOf(trends, c) <= health.divisor

\* a snapshot of zero counts and entries without count was scored
C3_Witness ==
    /\ health.called
    /\ \E c \in DOMAIN trends : trends[c] = NoCountEntry
    /\ \E c \in DOMAIN trends : trends[c] = [count |-> 0]
    /\ AllZero(trends)
    /\ health.value = 500

\* C4: with a positive maximum the score is the sum over the categories in
\* both the snapshot and the weights of count / maxCount * 100 * weight,
\* rounded to one decimal (ties to even); absent categories add nothing and
\* their weight is not redistributed, so a snapshot of the busiest category
\* alone scores 100 * its weight, and counts 2 and 1 for tech and retail
\* score 35.0.
C4_WeightedScore ==
    (health.called /\ ~AllZero(trends)) =>
        LET maxCount == SetMax({CountOf(trends, c) : c \in DOMAIN trends})
            sum == WeightedSum(DOMAIN trends \cap WeightKeys, trends)
            \* the exact score is sum / maxCount; health.value is in tenths
            err == 10 * sum - health.value * maxCount
        IN /\ health.exc = "none"
           /\ 2 * Abs(err) <= maxCount
           /\ 2 * Abs(err) = maxCount => health.value % 2 = 0
           /\ \A c \in CategorySet :
                 DOMAIN trends = {c} => health.value = 10 * WeightOf(c)
           /\ (DOMAIN trends = {"tech", "retail"}
                 /\ CountOf(trends, "tech") = 2 /\ CountOf(trends, "retail") = 1)
              => health.value = 350

\* tech 1 and retail 4 with other categories absent: 6.25 + 20 rounds to 26.2
C4_Witness ==
    /\ health.called
    /\ DOMAIN trends = {"tech", "retail"}
    /\ CountOf(trends, "tech") = 1
    /\ CountOf(trends, "retail") = 4
    /\ health.value = 262

-----------------------------------------------------------------------------
(* Properties of get_health (HealthSpec) *)

\* the score of the formula, clamped, in thousandths of a point
FormulaScore(unemployment, inflation) ==
    LET penalty == IF unemployment > 5000 THEN (unemployment - 5000) * 10
                   ELSE IF unemployment < 3500 THEN (3500 - unemployment) * 5
                   ELSE 0
        raw == 100000 - penalty - Abs(inflation - 2000) * 10
    IN IF raw < 0 THEN 0 ELSE IF raw > 100000 THEN 100000 ELSE raw

\* C5 as stated: the returned score is the clamped value of the formula.
C5_ReturnsClampedScore ==
    response # NoResponse =>
        /\ response.score * 100 = FormulaScore(data.unemployment, data.inflation)
        /\ response.score >= 0
        /\ response.score <= 1000

\* C5 amended: the returned score is the clamped value of the formula
\* rounded to one decimal place, and lies in [0, 100].
C5_ReturnsRoundedClampedScore ==
    response # NoResponse =>
        /\ 2 * Abs(response.score * 100
                    - FormulaScore(data.unemployment, data.inflation)) <= 100
        /\ response.score >= 0
        /\ response.score <= 1000

\* penalties above 100 were clamped to the score 0
C5_Witness ==
    /\ response # NoResponse
    /\ data.unemployment > 5000
    /\ UnemploymentPenalty(data.unemployment) + InflationPenalty(data.inflation) > 100000
    /\ response.score = 0

\* C6: the rating agrees with the score of the same response: healthy from
\* 70, cautious from 50 and below 70, concerning below 50.
C6_RatingAgreesWithScore ==
    response # NoResponse =>
        /\ response.rating = "healthy" <=> response.score >= 700
        /\ response.rating = "cautious" <=> (response.score >= 500 /\ response.score < 700)
        /\ response.rating = "concerning" <=> response.score < 500


=============================================================================
